---- MODULE Spec2Model ----
(***************************************************************************)
(* git-profile (src/main.go): a CLI that keeps named git identities in a   *)
(* JSON file and applies one of them to the local or global git config.    *)
(*                                                                         *)
(* Strings are sequences of characters.  A character is a one-element      *)
(* token: "a", " ", "\n", the byte "0xFF" (not valid UTF-8 on its own) and *)
(* the replacement rune "U+FFFD"; fixed pieces of text the program prints  *)
(* with Sprintf are single tokens.  The config file, the git configuration *)
(* of the repository and of the user, and the hook files are the state;    *)
(* one invocation of the program is one step.  A second family of actions  *)
(* runs add step by step (load, create, write, rename) so that a crash   *)
(* or a second process can fall between the steps.                         *)
(***************************************************************************)
EXTENDS Integers, Sequences, FiniteSets, TLC

VARIABLES cfgFile, tmpFile, gitLocal, gitGlobal, hooks, last, procs

vars == <<cfgFile, tmpFile, gitLocal, gitGlobal, hooks, last, procs>>

----------------------------------------------------------------------------
(* Bounds *)

\* most profiles a run stores
MaxProfiles == 2
\* most steps of one invocation that fail
MaxFaults == 1
\* longest line typed at the prompt of choose
MaxLineLen == 2

----------------------------------------------------------------------------
(* Strings *)

Str(t) == <<t>>
Empty == <<>>

\* unicode.IsSpace on the characters of the model
IsSpace(c) == c \in {" ", "\n", "\t"}

RECURSIVE TrimLeft(_)
TrimLeft(s) ==
  IF s = <<>> THEN s
  ELSE IF IsSpace(Head(s)) THEN TrimLeft(Tail(s)) ELSE s

RECURSIVE TrimRight(_)
TrimRight(s) ==
  IF s = <<>> THEN s
  ELSE IF IsSpace(s[Len(s)]) THEN TrimRight(SubSeq(s, 1, Len(s) - 1)) ELSE s

\* strings.TrimSpace
TrimSpace(s) == TrimRight(TrimLeft(s))

\* The first byte of a character: what sort.Strings and the JSON encoder's
\* key sort compare.
CharOrd(c) ==
  CASE c = "\t" -> 9
    [] c = "\n" -> 10
    [] c = " " -> 32
    [] c = "a" -> 97
    [] c = "b" -> 98
    [] c = "U+FFFD" -> 239
    [] c = "0xFF" -> 255
    [] OTHER -> 64

RECURSIVE StrLess(_, _)
StrLess(s, t) ==
  IF t = <<>> THEN FALSE
  ELSE IF s = <<>> THEN TRUE
  ELSE IF CharOrd(Head(s)) # CharOrd(Head(t))
       THEN CharOrd(Head(s)) < CharOrd(Head(t))
       ELSE StrLess(Tail(s), Tail(t))

\* sort.Strings over the keys of a map
RECURSIVE SortStrings(_)
SortStrings(S) ==
  IF S = {} THEN <<>>
  ELSE LET m == CHOOSE x \in S : \A y \in S : ~StrLess(y, x)
       IN  <<m>> \o SortStrings(S \ {m})

\* every order in which Go may range over a map with keys S
Orders(S) ==
  {q \in [1..Cardinality(S) -> S] : \A i, j \in 1..Cardinality(S) : i # j => q[i] # q[j]}

\* encoding/json writes a string coerced to valid UTF-8: each invalid byte
\* becomes the replacement rune
ToValidUTF8(s) == [i \in DOMAIN s |-> IF s[i] = "0xFF" THEN "U+FFFD" ELSE s[i]]

----------------------------------------------------------------------------
(* Profile, Config and the JSON document *)

Profile(id, name, email, sshKey) ==
  [id |-> id, git_user |-> name, git_email |-> email, ssh_key_path |-> sshKey]

\* Config.Profiles at construction: make(map[string]Profile)
EmptyProfiles == [k \in {} |-> Profile(<<>>, <<>>, <<>>, <<>>)]

\* m[k] = p on a Go map
MapSet(m, k, p) == [x \in DOMAIN m \cup {k} |-> IF x = k THEN p ELSE m[x]]

\* One "<key>": {...} member of the "profiles" object.  ssh_key_path is
\* tagged omitempty: the member has no such field when the path is empty.
EncodeProfile(k, p) ==
  LET base == [key |-> ToValidUTF8(k), id |-> ToValidUTF8(p.id),
               git_user |-> ToValidUTF8(p.git_user),
               git_email |-> ToValidUTF8(p.git_email)]
  IN  IF p.ssh_key_path = <<>> THEN base
      ELSE [key |-> base.key, id |-> base.id, git_user |-> base.git_user,
            git_email |-> base.git_email,
            ssh_key_path |-> ToValidUTF8(p.ssh_key_path)]

\* json.Encoder.Encode of a Config: the members in the sorted order of the
\* map's keys
EncodeMembers(profiles) ==
  LET ks == SortStrings(DOMAIN profiles)
  IN  [i \in DOMAIN ks |-> EncodeProfile(ks[i], profiles[ks[i]])]

\* A file: absent, or the members written so far and whether the document's
\* closing brace has been written.
Absent == [exists |-> FALSE, members |-> <<>>, closed |-> FALSE]
Created == [exists |-> TRUE, members |-> <<>>, closed |-> FALSE]
Document(ms) == [exists |-> TRUE, members |-> ms, closed |-> TRUE]

Encode(profiles) == Document(EncodeMembers(profiles))

DecodeProfile(m) ==
  Profile(m.id, m.git_user, m.git_email,
          IF "ssh_key_path" \in DOMAIN m THEN m.ssh_key_path ELSE <<>>)

\* json.Decoder.Decode into map[string]Profile: a later member with the same
\* key replaces an earlier one
RECURSIVE DecodeMembers(_, _)
DecodeMembers(ms, acc) ==
  IF ms = <<>> THEN acc
  ELSE DecodeMembers(Tail(ms), MapSet(acc, Head(ms).key, DecodeProfile(Head(ms))))

\* a truncated or empty file does not decode
Decodable(f) == f.exists /\ f.closed

----------------------------------------------------------------------------
(* Steps that can fail, and what one invocation leaves behind *)

\* the files and git configuration an invocation runs on
State(file, tmp, loc, glb, hk) ==
  [file |-> file, tmp |-> tmp, loc |-> loc, glb |-> glb, hooks |-> hk]

\* what an invocation did besides changing the state: the git config
\* commands it issued, the steps that failed, whether it read standard input,
\* the profile it handed to applyProfile, what it printed
NoTrace == [log |-> <<>>, failed |-> {}, stdin |-> FALSE, applied |-> <<>>, out |-> <<>>]

Failing(tr, step) == [tr EXCEPT !.failed = @ \cup {step}]

\* a handler's return: err is "nil" or the error's text; exit is -1 unless
\* the handler itself ended the process
Return(err, st, tr) == [err |-> err, exit |-> -1, st |-> st, tr |-> tr]
Exit(code, st, tr) == [err |-> "nil", exit |-> code, st |-> st, tr |-> tr]

----------------------------------------------------------------------------
(* Config file handling *)

\* defaultConfigPath: "nil" or the failing step
defaultConfigPath(F) ==
  IF "UserConfigDir" \in F THEN "UserConfigDir"
  ELSE IF "MkdirAll" \in F THEN "MkdirAll"
  ELSE "nil"

\* loadConfig: [err, profiles, failed]
loadConfig(file, F) ==
  LET none == EmptyProfiles
      perr == defaultConfigPath(F)
  IN  IF perr # "nil" THEN [err |-> perr, profiles |-> none, failed |-> {perr}]
      ELSE IF ~file.exists THEN [err |-> "nil", profiles |-> none, failed |-> {}]
      ELSE IF "Open" \in F THEN [err |-> "Open", profiles |-> none, failed |-> {"Open"}]
      ELSE IF "Read" \in F
           THEN [err |-> "Decode", profiles |-> none, failed |-> {"Read"}]
      ELSE IF ~Decodable(file)
           THEN [err |-> "Decode", profiles |-> none, failed |-> {"Decode"}]
      ELSE [err |-> "nil", profiles |-> DecodeMembers(file.members, none),
            failed |-> {}]

\* os.Create(path): saveConfig writing the config file in place
CreateInPlace(st) == [st EXCEPT !.file = Created, !.tmp = Created]

\* os.Create(tmp): the temporary file exists and is empty
CreateTmp(st) == [st EXCEPT !.tmp = Created]

\* enc.Encode(cfg) reaching the file whole
WriteTmp(st, profiles) == [st EXCEPT !.tmp = Encode(profiles)]

\* os.Rename(tmp, path)
RenameTmp(st) == [st EXCEPT !.file = st.tmp, !.tmp = Absent]

\* the deferred f.Close(): its error is dropped
CloseTmp(failed, F) == IF "Close" \in F THEN failed \cup {"Close"} ELSE failed

\* saveConfig: [err, st, failed]
saveConfig(profiles, st, F) ==
  IF "Create" \in F THEN [err |-> "Create", st |-> st, failed |-> {"Create"}]
  ELSE LET s1 == CreateTmp(st)
       IN  IF "Write" \in F
           THEN [err |-> "Write", st |-> s1, failed |-> CloseTmp({"Write"}, F)]
           ELSE LET s2 == WriteTmp(s1, profiles)
                IN  IF "Rename" \in F
                    THEN [err |-> "Rename", st |-> s2,
                          failed |-> CloseTmp({"Rename"}, F)]
                    ELSE [err |-> "nil", st |-> RenameTmp(s2),
                          failed |-> CloseTmp({}, F)]

----------------------------------------------------------------------------
(* Git config helpers *)

\* the step a git subprocess is, for the set F of steps that fail
SetStep(key) ==
  CASE key = "user.name" -> "set user.name"
    [] key = "user.email" -> "set user.email"
    [] key = "core.sshCommand" -> "set core.sshCommand"
    [] OTHER -> "set gitprofile.default"

GetStep(key) ==
  CASE key = "user.name" -> "get user.name"
    [] key = "user.email" -> "get user.email"
    [] key = "core.sshCommand" -> "get core.sshCommand"
    [] OTHER -> "get gitprofile.default"

NoGitConfig == [k \in {} |-> <<>>]

\* git config [--global] key value on the file it names
GitStore(cfg, key, value) == [k \in DOMAIN cfg \cup {key} |-> IF k = key THEN value ELSE cfg[k]]

\* git config --unset key on the repository's file
GitRemove(cfg, key) == [k \in DOMAIN cfg \ {key} |-> cfg[k]]

\* the scope a call of runGitConfig writes: "global", or anything else
\* (treated as local)
TargetScope(scope) == IF scope = "global" THEN "global" ELSE "local"

\* runGitConfig: [ok, st, tr]
runGitConfig(scope, key, value, st, tr, F) ==
  LET ok == SetStep(key) \notin F
      cmd == [op |-> "set", scope |-> TargetScope(scope), key |-> key,
              value |-> value, ok |-> ok]
      tr1 == [tr EXCEPT !.log = Append(@, cmd)]
  IN  IF ~ok THEN [ok |-> FALSE, st |-> st, tr |-> Failing(tr1, SetStep(key))]
      ELSE IF scope = "global"
           THEN [ok |-> TRUE, st |-> [st EXCEPT !.glb = GitStore(@, key, value)], tr |-> tr1]
           ELSE [ok |-> TRUE, st |-> [st EXCEPT !.loc = GitStore(@, key, value)], tr |-> tr1]

\* what git config --get key prints: the repository's value, else the
\* user's, each followed by a newline
GitGetOutput(key, st) ==
  IF key \in DOMAIN st.loc THEN st.loc[key] \o <<"\n">> ELSE st.glb[key] \o <<"\n">>

\* getGitConfig: [ok, value, failed]
getGitConfig(key, st, F) ==
  IF GetStep(key) \in F THEN [ok |-> FALSE, value |-> <<>>, failed |-> {GetStep(key)}]
  ELSE IF key \notin DOMAIN st.loc \cup DOMAIN st.glb
       THEN [ok |-> FALSE, value |-> <<>>, failed |-> {}]
  ELSE [ok |-> TRUE, value |-> TrimSpace(GitGetOutput(key, st)), failed |-> {}]

\* getGitConfigGlobal: [ok, value, failed]
getGitConfigGlobal(key, st, F) ==
  IF "get --global gitprofile.default" \in F
  THEN [ok |-> FALSE, value |-> <<>>, failed |-> {"get --global gitprofile.default"}]
  ELSE IF key \notin DOMAIN st.glb THEN [ok |-> FALSE, value |-> <<>>, failed |-> {}]
  ELSE [ok |-> TRUE, value |-> TrimSpace(st.glb[key] \o <<"\n">>), failed |-> {}]

\* fmt.Sprintf("ssh -i %s -F /dev/null", p.SSHKeyPath)
SshCommand(path) == <<"ssh -i ">> \o path \o <<" -F /dev/null">>

\* exec.Command("git", "config", "--unset", "core.sshCommand").Run(), its
\* error dropped: [st, tr]
UnsetSshCommand(st, tr, F) ==
  LET ok == "unset core.sshCommand" \notin F /\ "core.sshCommand" \in DOMAIN st.loc
      cmd == [op |-> "unset", scope |-> "local", key |-> "core.sshCommand",
              value |-> <<>>, ok |-> ok]
      tr1 == [tr EXCEPT !.log = Append(@, cmd)]
  IN  IF "unset core.sshCommand" \in F
      THEN [st |-> st, tr |-> Failing(tr1, "unset core.sshCommand")]
      ELSE [st |-> [st EXCEPT !.loc = GitRemove(@, "core.sshCommand")], tr |-> tr1]

\* the unset never reached for a repository
ClearsOnlyGlobal(build, scope) == scope = "global"

\* the test that guards the unset: scope != "global" in the first variant of
\* applyProfile, scope == "local" in the second
ClearsSshCommand(build, scope) == IF build = 1 THEN scope # "global" ELSE scope = "local"

\* applyProfile going on after a failed write of user.email
applyProfileIgnoringEmailError(build, p, scope, st, tr, F) ==
  LET r1 == runGitConfig(scope, "user.name", p.git_user, st, tr, F) IN
  IF ~r1.ok THEN Return("setting user.name", r1.st, r1.tr)
  ELSE
  LET r2 == runGitConfig(scope, "user.email", p.git_email, r1.st, r1.tr, F) IN
  IF p.ssh_key_path # <<>>
  THEN LET r3 == runGitConfig(scope, "core.sshCommand", SshCommand(p.ssh_key_path),
                              r2.st, r2.tr, F)
       IN  IF ~r3.ok THEN Return("setting core.sshCommand", r3.st, r3.tr)
           ELSE Return(IF r2.ok THEN "nil" ELSE "setting user.email", r3.st, r3.tr)
  ELSE IF ClearsSshCommand(build, scope)
  THEN LET r4 == UnsetSshCommand(r2.st, r2.tr, F)
       IN  Return(IF r2.ok THEN "nil" ELSE "setting user.email", r4.st, r4.tr)
  ELSE Return(IF r2.ok THEN "nil" ELSE "setting user.email", r2.st, r2.tr)

\* applyProfile, both variants
applyProfile(build, p, scope, st, tr, F) ==
  LET r1 == runGitConfig(scope, "user.name", p.git_user, st, tr, F) IN
  IF ~r1.ok THEN Return("setting user.name", r1.st, r1.tr)
  ELSE
  LET r2 == runGitConfig(scope, "user.email", p.git_email, r1.st, r1.tr, F) IN
  IF ~r2.ok THEN Return("setting user.email", r2.st, r2.tr)
  ELSE IF p.ssh_key_path # <<>>
  THEN LET r3 == runGitConfig(scope, "core.sshCommand", SshCommand(p.ssh_key_path),
                              r2.st, r2.tr, F)
       IN  IF ~r3.ok THEN Return("setting core.sshCommand", r3.st, r3.tr)
           ELSE Return("nil", r3.st, r3.tr)
  ELSE IF ClearsSshCommand(build, scope)
  THEN LET r4 == UnsetSshCommand(r2.st, r2.tr, F) IN Return("nil", r4.st, r4.tr)
  ELSE Return("nil", r2.st, r2.tr)

\* applyProfile on the profile a command selected
Apply(build, p, scope, st, tr, F) ==
  applyProfile(build, p, scope, st, [tr EXCEPT !.applied = <<p>>], F)

\* gitDir
gitDir(F) == "rev-parse" \notin F

----------------------------------------------------------------------------
(* Commands *)

AddFailed(tr, steps) == [tr EXCEPT !.failed = @ \cup steps]
Printing(tr, line) == [tr EXCEPT !.out = Append(@, line)]

\* a FlagSet that hands the parse error back to the handler, which main turns
\* into status 1
FlagExitAsError(parse) == IF parse = "bad" THEN 1 ELSE IF parse = "help" THEN 0 ELSE -1

\* fs.Parse(args) of a FlagSet made with flag.ExitOnError: an argument list
\* the FlagSet rejects ends the process with status 2, -h or -help with
\* status 0 (Go 1.15 and later); otherwise the handler goes on
FlagExit(parse) == IF parse = "bad" THEN 2 ELSE IF parse = "help" THEN 0 ELSE -1

\* cmdAdd without its test for an id that is already stored
cmdAddNoDuplicateTest(argv, st, F) ==
  IF FlagExit(argv.parse) # -1 THEN Exit(FlagExit(argv.parse), st, NoTrace)
  ELSE IF argv.id = <<>> \/ argv.name = <<>> \/ argv.email = <<>>
  THEN Return("id, name and email are required", st, NoTrace)
  ELSE
  LET ld == loadConfig(st.file, F)
      tr1 == AddFailed(NoTrace, ld.failed)
  IN
  IF ld.err # "nil" THEN Return(ld.err, st, tr1)
  ELSE
  LET p == Profile(argv.id, argv.name, argv.email, argv.sshKey)
      sv == saveConfig(MapSet(ld.profiles, argv.id, p), st, F)
      tr2 == AddFailed(tr1, sv.failed)
  IN
  IF sv.err # "nil" THEN Return(sv.err, sv.st, tr2)
  ELSE Return("nil", sv.st, Printing(tr2, <<"Added profile", argv.id>>))

\* cmdAdd
cmdAdd(argv, st, F) ==
  IF FlagExit(argv.parse) # -1 THEN Exit(FlagExit(argv.parse), st, NoTrace)
  ELSE IF argv.id = <<>> \/ argv.name = <<>> \/ argv.email = <<>>
  THEN Return("id, name and email are required", st, NoTrace)
  ELSE
  LET ld == loadConfig(st.file, F)
      tr1 == AddFailed(NoTrace, ld.failed)
  IN
  IF ld.err # "nil" THEN Return(ld.err, st, tr1)
  ELSE IF argv.id \in DOMAIN ld.profiles THEN Return("profile already exists", st, tr1)
  ELSE
  LET p == Profile(argv.id, argv.name, argv.email, argv.sshKey)
      sv == saveConfig(MapSet(ld.profiles, argv.id, p), st, F)
      tr2 == AddFailed(tr1, sv.failed)
  IN
  IF sv.err # "nil" THEN Return(sv.err, sv.st, tr2)
  ELSE Return("nil", sv.st, Printing(tr2, <<"Added profile", argv.id>>))

\* the line cmdList prints for a profile
ListLine(id, p) ==
  <<id, p.git_user, p.git_email,
    IF p.ssh_key_path = <<>> THEN <<"(default SSH)">> ELSE p.ssh_key_path>>

\* the order in which a command walks the profiles: sorted ids in the first
\* variant; in the second, the order in which the map happens to be
\* ranged over
WalkOrder(build, profiles, order) ==
  IF build = 1 THEN SortStrings(DOMAIN profiles) ELSE order

\* cmdList
cmdList(build, st, F, order) ==
  LET ld == loadConfig(st.file, F)
      tr1 == AddFailed(NoTrace, ld.failed)
      ids == WalkOrder(build, ld.profiles, order)
  IN
  IF ld.err # "nil" THEN Return(ld.err, st, tr1)
  ELSE IF DOMAIN ld.profiles = {}
  THEN Return("nil", st, Printing(tr1, <<"No profiles configured yet.">>))
  ELSE Return("nil", st,
              [tr1 EXCEPT !.out = [i \in DOMAIN ids |-> ListLine(ids[i], ld.profiles[ids[i]])]])

\* cmdUse
cmdUse(build, argv, st, F) ==
  IF FlagExit(argv.parse) # -1 THEN Exit(FlagExit(argv.parse), st, NoTrace)
  ELSE IF Len(argv.pos) < 1 THEN Return("usage: git-profile use", st, NoTrace)
  ELSE
  LET id == argv.pos[1]
      ld == loadConfig(st.file, F)
      tr1 == AddFailed(NoTrace, ld.failed)
      scope == IF argv.global THEN "global" ELSE "local"
  IN
  IF ld.err # "nil" THEN Return(ld.err, st, tr1)
  ELSE IF id \notin DOMAIN ld.profiles THEN Return("profile not found", st, tr1)
  ELSE
  LET r == Apply(build, ld.profiles[id], scope, st, tr1, F) IN
  IF r.err # "nil" THEN r
  ELSE Return("nil", r.st, Printing(r.tr, <<"Applied profile", id, scope>>))

\* cmdCurrent: the second variant stops after core.sshCommand
cmdCurrent(build, st, F) ==
  LET name == getGitConfig("user.name", st, F)
      email == getGitConfig("user.email", st, F)
      ssh == getGitConfig("core.sshCommand", st, F)
      def == getGitConfig("gitprofile.default", st, F)
      gdef == getGitConfigGlobal("gitprofile.default", st, F)
      tr1 == AddFailed(NoTrace, name.failed \cup email.failed)
      out1 == (IF name.ok THEN <<<<"user.name", name.value>>>> ELSE <<>>)
              \o (IF email.ok THEN <<<<"user.email", email.value>>>> ELSE <<>>)
              \o (IF ssh.ok /\ ssh.value # <<>>
                  THEN <<<<"core.sshCommand", ssh.value>>>>
                  ELSE <<<<"core.sshCommand", <<"(default)">>>>>>)
      out2 == (IF def.ok /\ def.value # <<>>
               THEN <<<<"gitprofile.default (local)", def.value>>>> ELSE <<>>)
              \o (IF gdef.ok /\ gdef.value # <<>>
                  THEN <<<<"gitprofile.default (global)", gdef.value>>>> ELSE <<>>)
  IN
  IF ~name.ok /\ ~email.ok
  THEN Return("no user.name or user.email set in this repo", st, tr1)
  ELSE IF build = 1
  THEN Return("nil", st,
              [tr1 EXCEPT !.failed = @ \cup ssh.failed \cup def.failed \cup gdef.failed,
                          !.out = out1 \o out2])
  ELSE Return("nil", st, [tr1 EXCEPT !.failed = @ \cup ssh.failed, !.out = out1])

\* fmt.Sscanf(line, "%d", &choice): leading space skipped, an optional sign,
\* then the longest run of digits; what follows the digits is left unread and
\* is no error.  (A line within MaxLineLen cannot overflow an int.)
Digits == {"0", "1", "2", "3", "4", "5", "6", "7", "8", "9"}

DigitVal(c) ==
  CASE c = "0" -> 0 [] c = "1" -> 1 [] c = "2" -> 2 [] c = "3" -> 3 [] c = "4" -> 4
    [] c = "5" -> 5 [] c = "6" -> 6 [] c = "7" -> 7 [] c = "8" -> 8 [] OTHER -> 9

RECURSIVE ScanDigits(_, _, _)
\* [n: digits read, value]
ScanDigits(s, n, acc) ==
  IF s # <<>> /\ Head(s) \in Digits
  THEN ScanDigits(Tail(s), n + 1, 10 * acc + DigitVal(Head(s)))
  ELSE [n |-> n, value |-> acc]

\* [ok, value]
Sscanf(line) ==
  LET s == TrimLeft(line)
      signed == s # <<>> /\ Head(s) \in {"+", "-"}
      d == ScanDigits(IF signed THEN Tail(s) ELSE s, 0, 0)
  IN  IF d.n = 0 THEN [ok |-> FALSE, value |-> 0]
      ELSE [ok |-> TRUE, value |-> IF signed /\ Head(s) = "-" THEN 0 - d.value ELSE d.value]

\* cmdChoose: typed is what standard input holds before its first newline
\* (or its end); the error of ReadString is dropped
cmdChoose(build, st, typed, F, order) ==
  LET ld == loadConfig(st.file, F)
      tr1 == AddFailed(NoTrace, ld.failed)
      ids == WalkOrder(build, ld.profiles, order)
      tr2 == [tr1 EXCEPT !.stdin = TRUE,
                         !.failed = IF "stdin" \in F THEN @ \cup {"stdin"} ELSE @,
                         !.out = ids]
      line == TrimSpace(typed)
      n == Sscanf(line)
  IN
  IF ld.err # "nil" THEN Return(ld.err, st, tr1)
  ELSE IF DOMAIN ld.profiles = {}
  THEN Return("no profiles configured; run git-profile add first", st, tr1)
  ELSE IF line = <<>> THEN Return("no selection made", st, tr2)
  ELSE IF ~n.ok \/ n.value < 1 \/ n.value > Len(ids)
  THEN Return("invalid selection", st, tr2)
  ELSE Apply(build, ld.profiles[ids[n.value]], "local", st, tr2, F)

\* cmdSetDefault not looking at what git config returned
cmdSetDefaultUnchecked(argv, st, F) ==
  IF FlagExit(argv.parse) # -1 THEN Exit(FlagExit(argv.parse), st, NoTrace)
  ELSE IF Len(argv.pos) < 1 THEN Return("usage: git-profile set-default", st, NoTrace)
  ELSE
  LET id == argv.pos[1]
      ld == loadConfig(st.file, F)
      tr1 == AddFailed(NoTrace, ld.failed)
      scope == IF argv.global THEN "global" ELSE "local"
  IN
  IF ld.err # "nil" THEN Return(ld.err, st, tr1)
  ELSE IF id \notin DOMAIN ld.profiles THEN Return("profile not found", st, tr1)
  ELSE
  LET r == runGitConfig(scope, "gitprofile.default", id, st, tr1, F) IN
  Return("nil", r.st, Printing(r.tr, <<"Set default", id, scope>>))

\* cmdSetDefault
cmdSetDefault(argv, st, F) ==
  IF FlagExit(argv.parse) # -1 THEN Exit(FlagExit(argv.parse), st, NoTrace)
  ELSE IF Len(argv.pos) < 1 THEN Return("usage: git-profile set-default", st, NoTrace)
  ELSE
  LET id == argv.pos[1]
      ld == loadConfig(st.file, F)
      tr1 == AddFailed(NoTrace, ld.failed)
      scope == IF argv.global THEN "global" ELSE "local"
  IN
  IF ld.err # "nil" THEN Return(ld.err, st, tr1)
  ELSE IF id \notin DOMAIN ld.profiles THEN Return("profile not found", st, tr1)
  ELSE
  LET r == runGitConfig(scope, "gitprofile.default", id, st, tr1, F) IN
  IF ~r.ok THEN Return("git config gitprofile.default", r.st, r.tr)
  ELSE Return("nil", r.st, Printing(r.tr, <<"Set default", id, scope>>))

\* a default that ensure honours: read without error, not empty, and the id
\* of a stored profile
Honoured(got, profiles) == got.ok /\ got.value # <<>> /\ got.value \in DOMAIN profiles

\* cmdEnsure applying a global default to the global git config
cmdEnsureGlobalTier(st, typed, F, order) ==
  LET ld == loadConfig(st.file, F)
      tr1 == AddFailed(NoTrace, ld.failed)
      def == getGitConfig("gitprofile.default", st, F)
      gdef == getGitConfigGlobal("gitprofile.default", st, F)
      tr2 == AddFailed(tr1, def.failed)
      tr3 == AddFailed(tr2, gdef.failed)
  IN
  IF ld.err # "nil" THEN Return(ld.err, st, tr1)
  ELSE IF DOMAIN ld.profiles = {}
  THEN Return("no profiles configured; run git-profile add first", st, tr1)
  ELSE IF Honoured(def, ld.profiles)
  THEN Apply(1, ld.profiles[def.value], "local", st, tr2, F)
  ELSE IF Honoured(gdef, ld.profiles)
  THEN Apply(1, ld.profiles[gdef.value], "global", st, tr3, F)
  ELSE LET r == cmdChoose(1, st, typed, F, order)
       IN  [r EXCEPT !.tr = AddFailed(@, tr3.failed)]

\* cmdEnsure
cmdEnsure(st, typed, F, order) ==
  LET ld == loadConfig(st.file, F)
      tr1 == AddFailed(NoTrace, ld.failed)
      def == getGitConfig("gitprofile.default", st, F)
      gdef == getGitConfigGlobal("gitprofile.default", st, F)
      tr2 == AddFailed(tr1, def.failed)
      tr3 == AddFailed(tr2, gdef.failed)
  IN
  IF ld.err # "nil" THEN Return(ld.err, st, tr1)
  ELSE IF DOMAIN ld.profiles = {}
  THEN Return("no profiles configured; run git-profile add first", st, tr1)
  ELSE IF Honoured(def, ld.profiles)
  THEN Apply(1, ld.profiles[def.value], "local", st, tr2, F)
  ELSE IF Honoured(gdef, ld.profiles)
  THEN Apply(1, ld.profiles[gdef.value], "local", st, tr3, F)
  ELSE LET r == cmdChoose(1, st, typed, F, order)
       IN  [r EXCEPT !.tr = AddFailed(@, tr3.failed)]

\* the hooks cmdInstallHooks writes, in order
HookNames == <<"prepare-commit-msg", "pre-push">>

WriteStep(name) ==
  IF name = "prepare-commit-msg" THEN "WriteFile prepare-commit-msg" ELSE "WriteFile pre-push"

\* cmdInstallHooks
cmdInstallHooks(st, F) ==
  IF ~gitDir(F) THEN Return("not a git repo?", st, Failing(NoTrace, "rev-parse"))
  ELSE IF "MkdirAll hooks" \in F THEN Return("MkdirAll", st, Failing(NoTrace, "MkdirAll hooks"))
  ELSE IF WriteStep(HookNames[1]) \in F
  THEN Return("writing hook", st, Failing(NoTrace, WriteStep(HookNames[1])))
  ELSE IF WriteStep(HookNames[2]) \in F
  THEN Return("writing hook", [st EXCEPT !.hooks = @ \cup {HookNames[1]}],
              Failing(NoTrace, WriteStep(HookNames[2])))
  ELSE Return("nil", [st EXCEPT !.hooks = @ \cup {HookNames[1], HookNames[2]}],
              Printing(NoTrace, <<"Installed git-profile hooks">>))

----------------------------------------------------------------------------
(* main *)

\* the commands main's switch knows: the second variant has no set-default,
\* ensure or install-hooks
Known(build) ==
  IF build = 1
  THEN {"add", "list", "use", "current", "choose", "set-default", "ensure", "install-hooks"}
  ELSE {"add", "list", "use", "current", "choose"}

HelpWords == {"help", "-h", "--help"}

\* the handler main's switch runs
Dispatch(build, argv, st, typed, F, order) ==
  CASE argv.cmd = "add" -> cmdAdd(argv, st, F)
    [] argv.cmd = "list" -> cmdList(build, st, F, order)
    [] argv.cmd = "use" -> cmdUse(build, argv, st, F)
    [] argv.cmd = "current" -> cmdCurrent(build, st, F)
    [] argv.cmd = "choose" -> cmdChoose(build, st, typed, F, order)
    [] argv.cmd = "set-default" -> cmdSetDefault(argv, st, F)
    [] argv.cmd = "ensure" -> cmdEnsure(st, typed, F, order)
    [] OTHER -> cmdInstallHooks(st, F)

\* the status main ends with after a handler returned r
ExitCode(r) == IF r.exit # -1 THEN r.exit ELSE IF r.err # "nil" THEN 1 ELSE 0

\* the end of main after a handler returned r
Handled(r) ==
  [exit |-> ExitCode(r), err |-> r.err, usage |-> FALSE, st |-> r.st, tr |-> r.tr]

\* main: argv.cmd is os.Args[1], "" when there is none
main(build, argv, st, typed, F, order) ==
  IF argv.cmd = "" THEN [exit |-> 1, err |-> "nil", usage |-> TRUE, st |-> st, tr |-> NoTrace]
  ELSE IF argv.cmd \in Known(build)
  THEN Handled(Dispatch(build, argv, st, typed, F, order))
  ELSE IF argv.cmd \in HelpWords
  THEN [exit |-> 0, err |-> "nil", usage |-> TRUE, st |-> st, tr |-> NoTrace]
  ELSE [exit |-> 1, err |-> "nil", usage |-> TRUE, st |-> st, tr |-> NoTrace]

----------------------------------------------------------------------------
(* One invocation of the program *)

\* the profiles the config file holds, as a loadConfig without failing steps
\* returns them
Stored(file) == loadConfig(file, {}).profiles

NoInvocation ==
  [build |-> 0, argv |-> [cmd |-> ""], typed |-> <<>>, exit |-> 0, err |-> "nil",
   usage |-> FALSE, tr |-> NoTrace]

\* what the process that ended as r leaves behind
Ran(build, argv, typed, r) ==
  /\ cfgFile' = r.st.file
  /\ tmpFile' = r.st.tmp
  /\ gitLocal' = r.st.loc
  /\ gitGlobal' = r.st.glb
  /\ hooks' = r.st.hooks
  /\ last' = [build |-> build, argv |-> argv, typed |-> typed, exit |-> r.exit,
              err |-> r.err, usage |-> r.usage, tr |-> r.tr]
  /\ UNCHANGED procs

\* git-profile argv, with typed on standard input, the steps F failing and
\* (second variant) the map ranged over in the order given
Invoke(build, argv, typed, F, order) ==
  Ran(build, argv, typed,
      main(build, argv, State(cfgFile, tmpFile, gitLocal, gitGlobal, hooks),
           typed, F, order))

\* the shell is at its prompt: no process is running
Ready == last = NoInvocation

\* the process has ended and its status and output have been seen: the shell
\* waits for the next command
Prompt ==
  /\ last # NoInvocation
  /\ last' = NoInvocation
  /\ UNCHANGED <<cfgFile, tmpFile, gitLocal, gitGlobal, hooks, procs>>

\* the steps of each command that can fail
LoadSteps == {"UserConfigDir", "MkdirAll", "Open", "Read"}
SaveSteps == {"Create", "Write", "Close", "Rename"}
ApplySteps == {"set user.name", "set user.email", "set core.sshCommand",
               "unset core.sshCommand"}
DefaultSteps == {"get gitprofile.default", "get --global gitprofile.default"}
CurrentSteps == {"get user.name", "get user.email", "get core.sshCommand"} \cup DefaultSteps
HookSteps == {"rev-parse", "MkdirAll hooks", "WriteFile prepare-commit-msg",
              "WriteFile pre-push"}

\* at most MaxFaults of the steps S fail
Faults(S) == {F \in SUBSET S : Cardinality(F) <= MaxFaults}

\* the orders the second variant may range over the stored profiles in
MapOrders(build) == IF build = 1 THEN {<<>>} ELSE Orders(DOMAIN Stored(cfgFile))

\* the arguments of add, use and set-default as the FlagSet parsed them
AddArgv(parse, id, name, email, sshKey) ==
  [cmd |-> "add", parse |-> parse, id |-> id, name |-> name, email |-> email,
   sshKey |-> sshKey]
PosArgv(cmd, parse, global, pos) ==
  [cmd |-> cmd, parse |-> parse, global |-> global, pos |-> pos]
Parses == {"ok", "bad", "help"}

\* git-profile add ...: a run stores at most MaxProfiles profiles
Add(ids, names, emails, keys, parses, steps) ==
  \E id \in ids, name \in names, email \in emails, key \in keys, parse \in parses,
     F \in Faults(steps) :
    /\ Ready
    /\ Invoke(1, AddArgv(parse, id, name, email, key), <<>>, F, <<>>)
    /\ Cardinality(DOMAIN Stored(cfgFile')) <= MaxProfiles

\* git-profile list
List(builds, steps) ==
  \E build \in builds, F \in Faults(steps) :
    \E order \in MapOrders(build) :
      /\ Ready
      /\ Invoke(build, [cmd |-> "list"], <<>>, F, order)

\* git-profile use [--global] [<id>]
Use(builds, ids, parses, steps) ==
  \E build \in builds, global \in BOOLEAN, pos \in {<<>>} \cup {<<i>> : i \in ids},
     parse \in parses, F \in Faults(steps) :
    /\ Ready
    /\ Invoke(build, PosArgv("use", parse, global, pos), <<>>, F, <<>>)

\* git-profile current
Current(builds, steps) ==
  \E build \in builds, F \in Faults(steps) :
    /\ Ready
    /\ Invoke(build, [cmd |-> "current"], <<>>, F, <<>>)

\* git-profile choose, with typed on standard input
Choose(builds, lines, steps) ==
  \E build \in builds, typed \in lines, F \in Faults(steps) :
    \E order \in MapOrders(build) :
      /\ Ready
      /\ Invoke(build, [cmd |-> "choose"], typed, F, order)

\* git-profile set-default [--global] [<id>]
SetDefault(ids, parses, steps) ==
  \E global \in BOOLEAN, pos \in {<<>>} \cup {<<i>> : i \in ids}, parse \in parses,
     F \in Faults(steps) :
    /\ Ready
    /\ Invoke(1, PosArgv("set-default", parse, global, pos), <<>>, F, <<>>)

\* git-profile ensure
Ensure(lines, steps) ==
  \E typed \in lines, F \in Faults(steps) :
    /\ Ready
    /\ Invoke(1, [cmd |-> "ensure"], typed, F, <<>>)

\* git-profile install-hooks
InstallHooks(steps) ==
  \E F \in Faults(steps) :
    /\ Ready
    /\ Invoke(1, [cmd |-> "install-hooks"], <<>>, F, <<>>)

\* git-profile, git-profile help, git-profile <anything else>
Other(builds, words) ==
  \E build \in builds, w \in words :
    /\ Ready
    /\ Invoke(build, [cmd |-> w], <<>>, {}, <<>>)

\* the user, or another tool, runs git config [--global] key value by hand
GitConfigByHand(scopes, keys, values) ==
  \E scope \in scopes, key \in keys, value \in values :
    /\ IF scope = "global"
       THEN gitGlobal' = GitStore(gitGlobal, key, value) /\ UNCHANGED gitLocal
       ELSE gitLocal' = GitStore(gitLocal, key, value) /\ UNCHANGED gitGlobal
    /\ last = NoInvocation
    /\ UNCHANGED <<cfgFile, tmpFile, hooks, last, procs>>

\* ... or git config [--global] --unset key
GitUnsetByHand(scopes, keys) ==
  \E scope \in scopes, key \in keys :
    /\ IF scope = "global"
       THEN gitGlobal' = GitRemove(gitGlobal, key) /\ UNCHANGED gitLocal
       ELSE gitLocal' = GitRemove(gitLocal, key) /\ UNCHANGED gitGlobal
    /\ last = NoInvocation
    /\ UNCHANGED <<cfgFile, tmpFile, hooks, last, procs>>

----------------------------------------------------------------------------
(* The texts the runs use *)

IdA == <<"a">>
IdB == <<"b">>
IdPadded == <<" ", "a">>
IdInvalid == <<"0xFF">>
IdReplacement == <<"U+FFFD">>
IdUnknown == <<"z">>
NameAnn == <<"A", "n", "n">>
EmailAnn == <<"a", "@", "x">>
KeyPath == <<"/", "k">>
Old == <<"o">>

NoProcs == [p \in {} |-> 0]

\* before the first invocation: no config file, nothing set in git
Init ==
  /\ cfgFile = Absent
  /\ tmpFile = Absent
  /\ gitLocal = NoGitConfig
  /\ gitGlobal = NoGitConfig
  /\ hooks = {}
  /\ last = NoInvocation
  /\ procs = NoProcs

----------------------------------------------------------------------------
(* The config store: add and list *)

StoreIds == {<<>>, IdA, IdInvalid, IdReplacement}

\* the configs a round trip is tried on: at most MaxProfiles profiles, each
\* under its own id as cmdAdd builds them
Configs(ids, names, emails, keys) ==
  UNION {[K -> {Profile(<<>>, n, e, k) : n \in names, e \in emails, k \in keys}] :
         K \in {K \in SUBSET ids : Cardinality(K) <= MaxProfiles}}

WithIds(profiles) == [k \in DOMAIN profiles |-> [profiles[k] EXCEPT !.id = k]]

\* saveConfig(cfg, path) followed by loadConfig()
SaveLoad(ids, names, emails, keys) ==
  \E c \in Configs(ids, names, emails, keys) :
    LET cfg == WithIds(c)
        sv == saveConfig(cfg, State(cfgFile, tmpFile, gitLocal, gitGlobal, hooks), {})
        ld == loadConfig(sv.st.file, {})
    IN  /\ last = NoInvocation
        /\ cfgFile' = sv.st.file
        /\ tmpFile' = sv.st.tmp
        /\ last' = [build |-> 1, argv |-> [cmd |-> "saveConfig; loadConfig", cfg |-> cfg],
                    typed |-> <<>>, exit |-> -1, err |-> ld.err, usage |-> FALSE,
                    tr |-> [NoTrace EXCEPT !.out = <<ld.profiles>>]]
        /\ UNCHANGED <<gitLocal, gitGlobal, hooks, procs>>

NextStore ==
  \/ Add(StoreIds, {<<>>, NameAnn}, {<<>>, EmailAnn}, {<<>>, KeyPath}, Parses,
         LoadSteps \cup SaveSteps)
  \/ List({1, 2}, LoadSteps)
  \/ SaveLoad(StoreIds \ {<<>>}, {NameAnn}, {EmailAnn}, {<<>>, KeyPath})
  \/ Prompt

SpecStore == Init /\ [][NextStore]_vars

----------------------------------------------------------------------------
(* add, step by step: a crash can fall between any two steps *)

\* a process that is not running
Idle ==
  [pc |-> "idle", argv |-> [cmd |-> ""], profiles |-> EmptyProfiles, base |-> Absent,
   new |-> Absent, err |-> "nil"]

Running == {"load", "create", "write", "rename"}

\* the next part of the document doc reaches the file f: its next member, or
\* after the last member the closing brace
WriteChunk(f, doc) ==
  IF Len(f.members) < Len(doc.members)
  THEN [f EXCEPT !.members = Append(@, doc.members[Len(f.members) + 1])]
  ELSE [f EXCEPT !.closed = TRUE]

\* process p starts git-profile add with flags that parse and the required
\* ones given; base is the config file as the invocation finds it
StartAdd(p, ids, names, emails, keys) ==
  \E id \in ids, name \in names, email \in emails, key \in keys :
    /\ procs[p].pc \notin Running
    /\ Cardinality(DOMAIN Stored(cfgFile) \cup {ToValidUTF8(id)}) <= MaxProfiles
    /\ procs' = [procs EXCEPT ![p] = [pc |-> "load",
                                      argv |-> AddArgv("ok", id, name, email, key),
                                      profiles |-> EmptyProfiles, base |-> cfgFile,
                                      new |-> cfgFile, err |-> "nil"]]
    /\ UNCHANGED <<cfgFile, tmpFile, gitLocal, gitGlobal, hooks, last>>

\* loadConfig, the test for a stored id, and cfg.Profiles[id] = p in memory
StepLoad(p) ==
  /\ procs[p].pc = "load"
  /\ LET ld == loadConfig(cfgFile, {})
         a == procs[p].argv
         ps == MapSet(ld.profiles, a.id, Profile(a.id, a.name, a.email, a.sshKey))
     IN  procs' = [procs EXCEPT ![p] =
                     IF ld.err # "nil" THEN [@ EXCEPT !.pc = "done", !.err = ld.err]
                     ELSE IF a.id \in DOMAIN ld.profiles
                     THEN [@ EXCEPT !.pc = "done", !.err = "profile already exists"]
                     ELSE [@ EXCEPT !.pc = "create", !.profiles = ps, !.new = Encode(ps)]]
  /\ UNCHANGED <<cfgFile, tmpFile, gitLocal, gitGlobal, hooks, last>>

\* saveConfig: os.Create(tmp)
StepCreate(p) ==
  /\ procs[p].pc = "create"
  /\ LET st == CreateTmp(State(cfgFile, tmpFile, gitLocal, gitGlobal, hooks))
     IN  cfgFile' = st.file /\ tmpFile' = st.tmp
  /\ procs' = [procs EXCEPT ![p].pc = "write"]
  /\ UNCHANGED <<gitLocal, gitGlobal, hooks, last>>

\* saveConfig: enc.Encode(cfg), as much of it as one write gets to the file
StepWrite(p) ==
  /\ procs[p].pc = "write"
  /\ tmpFile' = WriteChunk(tmpFile, procs[p].new)
  /\ procs' = [procs EXCEPT ![p].pc = IF tmpFile'.closed THEN "rename" ELSE "write"]
  /\ UNCHANGED <<cfgFile, gitLocal, gitGlobal, hooks, last>>

\* saveConfig: os.Rename(tmp, path), and add returns nil
StepRename(p) ==
  /\ procs[p].pc = "rename"
  /\ LET st == RenameTmp(State(cfgFile, tmpFile, gitLocal, gitGlobal, hooks))
     IN  cfgFile' = st.file /\ tmpFile' = st.tmp
  /\ procs' = [procs EXCEPT ![p].pc = "done"]
  /\ UNCHANGED <<gitLocal, gitGlobal, hooks, last>>

\* the process is killed where it stands
Crash(p) ==
  /\ procs[p].pc \in Running
  /\ procs' = [procs EXCEPT ![p].pc = "crashed"]
  /\ UNCHANGED <<cfgFile, tmpFile, gitLocal, gitGlobal, hooks, last>>

InitCrash ==
  /\ cfgFile = Absent
  /\ tmpFile = Absent
  /\ gitLocal = NoGitConfig
  /\ gitGlobal = NoGitConfig
  /\ hooks = {}
  /\ last = NoInvocation
  /\ procs = [p \in {1} |-> Idle]

NextCrash ==
  \/ StartAdd(1, {IdA, IdB, IdInvalid}, {NameAnn}, {EmailAnn}, {<<>>, KeyPath})
  \/ StepLoad(1)
  \/ StepCreate(1)
  \/ StepWrite(1)
  \/ StepRename(1)
  \/ Crash(1)

SpecCrash == InitCrash /\ [][NextCrash]_vars

----------------------------------------------------------------------------
(* Two adds at once.  Both name their temporary file <path>.tmp: os.Create
   opens the file that is there and truncates it, and each process writes
   through its own descriptor, at its own offset, to whatever file that
   descriptor was opened on, also after a rename has moved it. *)

\* a process that has not started; fd is where the file its descriptor was
\* opened on is found now: "none", at "tmp", at "cfg", or an "orphan" that no
\* path names
Waiting == [Idle EXCEPT !.pc = "idle"] @@ [fd |-> "none"]

\* process p starts git-profile add --id id --name Ann --email a@x
RaceStart(p, id) ==
  /\ procs[p].pc = "idle"
  /\ procs' = [procs EXCEPT ![p] = [@ EXCEPT !.pc = "load",
                                              !.argv = AddArgv("ok", id, NameAnn, EmailAnn, <<>>),
                                              !.base = cfgFile,
                                              !.new = cfgFile]]
  /\ UNCHANGED <<cfgFile, tmpFile, gitLocal, gitGlobal, hooks, last>>

\* saveConfig: os.Create(tmp), which truncates a temporary file that another
\* process has created and not yet renamed
RaceCreate(p) ==
  /\ procs[p].pc = "create"
  /\ tmpFile' = CreateTmp(State(cfgFile, tmpFile, gitLocal, gitGlobal, hooks)).tmp
  /\ procs' = [procs EXCEPT ![p].pc = "write", ![p].fd = "tmp"]
  /\ UNCHANGED <<cfgFile, gitLocal, gitGlobal, hooks, last>>

\* saveConfig: enc.Encode(cfg), one write of the whole document at offset 0
\* of the file the descriptor is open on.  (The two documents are of the
\* same length: nothing of an earlier write is left behind it.)
RaceWrite(p) ==
  /\ procs[p].pc = "write"
  /\ LET doc == WriteTmp(State(cfgFile, tmpFile, gitLocal, gitGlobal, hooks),
                         procs[p].profiles).tmp
     IN  /\ tmpFile' = IF procs[p].fd = "tmp" THEN doc ELSE tmpFile
         /\ cfgFile' = IF procs[p].fd = "cfg" THEN doc ELSE cfgFile
  /\ procs' = [procs EXCEPT ![p].pc = "rename"]
  /\ UNCHANGED <<gitLocal, gitGlobal, hooks, last>>

\* where a descriptor's file is found after a rename of tmp to the config
\* path
Moved(fd) == IF fd = "tmp" THEN "cfg" ELSE IF fd = "cfg" THEN "orphan" ELSE fd

\* saveConfig: os.Rename(tmp, path), which fails when another process has
\* renamed the temporary file away; add returns what it returns
RaceRename(p) ==
  /\ procs[p].pc = "rename"
  /\ IF tmpFile.exists
     THEN /\ LET st == RenameTmp(State(cfgFile, tmpFile, gitLocal, gitGlobal, hooks))
             IN  cfgFile' = st.file /\ tmpFile' = st.tmp
          /\ procs' = [q \in DOMAIN procs |->
                         [procs[q] EXCEPT !.fd = Moved(@),
                                          !.pc = IF q = p THEN "done" ELSE @]]
     ELSE /\ procs' = [procs EXCEPT ![p].pc = "done", ![p].err = "Rename"]
          /\ UNCHANGED <<cfgFile, tmpFile>>
  /\ UNCHANGED <<gitLocal, gitGlobal, hooks, last>>

\* the ids the two processes add, distinct and not stored
RaceId(p) == IF p = 1 THEN IdA ELSE IdB

InitRace ==
  /\ cfgFile \in {Absent} \cup
       {Encode(WithIds(c)) : c \in Configs({IdPadded, IdUnknown}, {NameAnn}, {EmailAnn}, {<<>>})}
  /\ tmpFile = Absent
  /\ gitLocal = NoGitConfig
  /\ gitGlobal = NoGitConfig
  /\ hooks = {}
  /\ last = NoInvocation
  /\ procs = [p \in {1, 2} |-> Waiting]

NextRace ==
  \E p \in {1, 2} :
    \/ RaceStart(p, RaceId(p))
    \/ StepLoad(p)
    \/ RaceCreate(p)
    \/ RaceWrite(p)
    \/ RaceRename(p)

SpecRace == InitRace /\ [][NextRace]_vars

----------------------------------------------------------------------------
(* use, on a repository whose git configuration anything may have set *)

\* the stored configs a run starts from: each is one that adds have built
StoredConfigs(ids, names, emails, keys) ==
  {Encode(WithIds(c)) : c \in Configs(ids, names, emails, keys)}

InitUse ==
  /\ cfgFile \in StoredConfigs({IdA, IdB}, {NameAnn}, {EmailAnn}, {<<>>, KeyPath})
  /\ tmpFile = Absent
  /\ gitLocal = NoGitConfig
  /\ gitGlobal = NoGitConfig
  /\ hooks = {}
  /\ last = NoInvocation
  /\ procs = NoProcs

UserKeys == {"user.name", "user.email", "core.sshCommand"}

NextUse ==
  \/ Use({1, 2}, {IdA, IdB, IdUnknown}, {"ok"}, ApplySteps \cup {"Open"})
  \/ GitConfigByHand({"local"}, UserKeys, {Old})
  \/ GitUnsetByHand({"local"}, UserKeys)
  \/ Prompt

SpecUse == InitUse /\ [][NextUse]_vars

----------------------------------------------------------------------------
(* ensure and choose, on a repository with defaults set by set-default or by
   hand *)

\* the identity the user's global git config holds
GlobalIdentity == GitStore(GitStore(NoGitConfig, "user.name", Old), "user.email", Old)

InitEnsure ==
  /\ cfgFile \in StoredConfigs({IdA, IdPadded}, {NameAnn}, {EmailAnn}, {<<>>, KeyPath})
  /\ tmpFile = Absent
  /\ gitLocal = NoGitConfig
  /\ gitGlobal = GlobalIdentity
  /\ hooks = {}
  /\ last = NoInvocation
  /\ procs = NoProcs

NextEnsure ==
  \/ Ensure({<<>>, <<"1">>, <<"2">>},
            DefaultSteps \cup {"stdin", "set user.name", "unset core.sshCommand"})
  \/ Choose({1, 2}, {<<>>, <<"1">>, <<"2">>}, {"stdin", "set user.email"})
  \/ SetDefault({IdA, IdPadded, IdUnknown}, {"ok"}, {"set gitprofile.default"})
  \/ GitConfigByHand({"local", "global"}, {"gitprofile.default"}, {IdA, IdPadded, IdUnknown})
  \/ GitUnsetByHand({"local", "global"}, {"gitprofile.default"})
  \/ Prompt

SpecEnsure == InitEnsure /\ [][NextEnsure]_vars

----------------------------------------------------------------------------
(* choose, on every line of at most MaxLineLen characters *)

\* the profile of SpecChoose's configs stored under id: its name tells it
\* from the others
Named(id) == Profile(id, <<"N">> \o id, EmailAnn, <<>>)

ChooseIds == {IdA, IdB, IdPadded}

InitChoose ==
  /\ cfgFile \in {Encode([k \in K |-> Named(k)]) :
                    K \in {K \in SUBSET ChooseIds : Cardinality(K) <= MaxProfiles}}
  /\ tmpFile = Absent
  /\ gitLocal = NoGitConfig
  /\ gitGlobal = GlobalIdentity
  /\ hooks = {}
  /\ last = NoInvocation
  /\ procs = NoProcs

LineChars == {"0", "1", "2", "3", "a"}

\* what standard input may hold before its first newline
Lines == UNION {[1..n -> LineChars] : n \in 0..MaxLineLen}

NextChoose ==
  \/ Choose({1, 2}, Lines, {"stdin"})
  \/ Prompt

SpecChoose == InitChoose /\ [][NextChoose]_vars

----------------------------------------------------------------------------
(* Every command, from before the first invocation *)

Lost == {"bad", "help"}

Next ==
  \/ Add({IdA}, {<<>>, NameAnn}, {EmailAnn}, {<<>>, KeyPath}, {"ok"},
         LoadSteps \cup SaveSteps)
  \/ Add({IdA}, {NameAnn}, {EmailAnn}, {<<>>}, Lost, {})
  \/ List({1, 2}, {"Open"})
  \/ Use({1, 2}, {IdA, IdUnknown}, {"ok"}, ApplySteps)
  \/ Use({1}, {IdA}, Lost, {})
  \/ Current({1, 2}, CurrentSteps)
  \/ Choose({1, 2}, {<<>>, <<"1">>, <<"a">>}, {"stdin", "set user.name", "Open"})
  \/ SetDefault({IdA, IdUnknown}, {"ok"}, {"set gitprofile.default", "Read"})
  \/ SetDefault({IdA}, Lost, {})
  \/ Ensure({<<>>, <<"1">>}, DefaultSteps \cup {"stdin", "set user.email"})
  \/ InstallHooks(HookSteps)
  \/ Other({1, 2}, {"", "help", "--help", "frobnicate", "ensure"})
  \/ Prompt

Spec == Init /\ [][Next]_vars

----------------------------------------------------------------------------
(* C1: add and the stored config *)

AddRuns == last = NoInvocation /\ last'.argv.cmd = "add"
AddedProfile == Profile(last'.argv.id, last'.argv.name, last'.argv.email, last'.argv.sshKey)
AddFails == last'.err # "nil" /\ last'.exit = 1 /\ Stored(cfgFile') = Stored(cfgFile)

AddStepFailed == last'.tr.failed \ {"Close"} # {}

\* the profile as the JSON file holds it
AsStored(p) ==
  Profile(ToValidUTF8(p.id), ToValidUTF8(p.git_user), ToValidUTF8(p.git_email),
          ToValidUTF8(p.ssh_key_path))

----------------------------------------------------------------------------
(* C8: saveConfig then loadConfig *)

\* C8 as stated: saving a config and loading it again returns the same ids
\* with the same id, name, email and SSH key path each.
C8_AsStated ==
  last.argv.cmd = "saveConfig; loadConfig" =>
    last.err = "nil" /\ last.tr.out = <<last.argv.cfg>>

----------------------------------------------------------------------------
(* C2: a crash during saveConfig *)

\* C2: whatever step of an add a crash follows, and at every point of a save
\* that is still running, loadConfig succeeds and returns the complete config
\* stored before the invocation or the complete new one: the config file is
\* never a part of a document and never empty.
C2_Atomic ==
  \A p \in DOMAIN procs :
    procs[p].pc # "idle" =>
      /\ loadConfig(cfgFile, {}).err = "nil"
      /\ cfgFile \in {procs[p].base, procs[p].new}
      /\ Stored(cfgFile) \in {Stored(procs[p].base), Stored(procs[p].new)}

\* a crash in the middle of the write: the temporary file holds a part of
\* the new document, the config file the old one
C2_Witness ==
  /\ procs[1].pc = "crashed"
  /\ tmpFile.exists /\ ~tmpFile.closed /\ Len(tmpFile.members) >= 1
  /\ cfgFile = procs[1].base /\ cfgFile.exists /\ cfgFile # procs[1].new

----------------------------------------------------------------------------
(* C4: use <id> on the repository *)

\* a use without --global that succeeded
UsedLocally ==
  /\ last = NoInvocation
  /\ last'.argv.cmd = "use" /\ ~last'.argv.global
  /\ last'.exit = 0 /\ last'.tr.applied # <<>>

\* the profile use was asked for
UsedProfile == Stored(cfgFile)[last'.argv.pos[1]]

IdentityApplied ==
  /\ "user.name" \in DOMAIN gitLocal' /\ gitLocal'["user.name"] = UsedProfile.git_user
  /\ "user.email" \in DOMAIN gitLocal' /\ gitLocal'["user.email"] = UsedProfile.git_email

SshCommandSet ==
  /\ "core.sshCommand" \in DOMAIN gitLocal'
  /\ gitLocal'["core.sshCommand"] = <<"ssh -i ">> \o UsedProfile.ssh_key_path \o <<" -F /dev/null">>

\* C4 as stated: after a successful local use, whatever the repository's git
\* config held before, user.name and user.email are the profile's, and
\* core.sshCommand is unset when the profile has no SSH key path and is
\* exactly ssh -i <path> -F /dev/null when it has one.
C4_AsStated ==
  [][UsedLocally =>
       /\ IdentityApplied
       /\ IF UsedProfile.ssh_key_path = <<>>
          THEN "core.sshCommand" \notin DOMAIN gitLocal'
          ELSE SshCommandSet]_vars

SshCommandKept ==
  /\ "core.sshCommand" \in DOMAIN gitLocal' <=> "core.sshCommand" \in DOMAIN gitLocal
  /\ "core.sshCommand" \in DOMAIN gitLocal =>
       gitLocal'["core.sshCommand"] = gitLocal["core.sshCommand"]

\* C4, amended: after a successful local use, user.name and user.email are
\* the profile's; core.sshCommand is exactly ssh -i <path> -F /dev/null when
\* the profile has SSH key path <path>; when it has none, core.sshCommand is
\* unset if the git config --unset did not fail, and keeps the value it had
\* if it failed (use succeeds all the same).
C4_Use ==
  [][UsedLocally =>
       /\ IdentityApplied
       /\ IF UsedProfile.ssh_key_path # <<>> THEN SshCommandSet
          ELSE IF "unset core.sshCommand" \in last'.tr.failed THEN SshCommandKept
          ELSE "core.sshCommand" \notin DOMAIN gitLocal']_vars

\* a local use of a profile without SSH key removed a core.sshCommand that
\* was set
C4_Witness ==
  /\ last.argv.cmd = "use" /\ ~last.argv.global /\ last.exit = 0
  /\ last.tr.applied # <<>> /\ last.tr.applied[1].ssh_key_path = <<>>
  /\ \E i \in DOMAIN last.tr.log : last.tr.log[i].op = "unset" /\ last.tr.log[i].ok
  /\ "core.sshCommand" \notin DOMAIN gitLocal
  /\ gitLocal["user.name"] = last.tr.applied[1].git_user

----------------------------------------------------------------------------
(* C10: the order of applyProfile's writes, and a write that fails *)

ApplyOrder == <<"user.name", "user.email", "core.sshCommand">>

\* the git config file applyProfile was told to write
Target(inv, loc, glb) ==
  IF inv.argv.cmd = "use" /\ inv.argv.global THEN glb ELSE loc

\* cfg with the writes log[1..n] done
RECURSIVE AfterWrites(_, _, _)
AfterWrites(cfg, log, n) ==
  IF n = 0 THEN cfg
  ELSE GitStore(AfterWrites(cfg, log, n - 1), log[n].key, log[n].value)

Applies == last = NoInvocation /\ last'.tr.applied # <<>>

\* C10: applyProfile issues its commands in the order user.name, user.email,
\* core.sshCommand; when the write of user.name or of user.email fails it
\* returns an error naming that key, issues nothing after it, and the keys
\* written before it keep their new values while every other key keeps the
\* value it had.
C10_Order ==
  [][Applies =>
       LET log == last'.tr.log
           p == last'.tr.applied[1]
       IN  /\ Len(log) >= 1 /\ Len(log) <= 3
           /\ \A i \in DOMAIN log : log[i].key = ApplyOrder[i]
           /\ \A i \in DOMAIN log : i <= 2 =>
                /\ log[i].op = "set"
                /\ log[i].value = (IF i = 1 THEN p.git_user ELSE p.git_email)
           /\ \A i \in DOMAIN log : i <= 2 /\ ~log[i].ok =>
                /\ last'.err = (IF i = 1 THEN "setting user.name" ELSE "setting user.email")
                /\ last'.exit = 1
                /\ Len(log) = i
                /\ Target(last', gitLocal', gitGlobal') =
                     AfterWrites(Target(last', gitLocal, gitGlobal), log, i - 1)]_vars

\* a failed apply left the new profile's user.name beside the user.email and
\* core.sshCommand of before
C10_Witness ==
  /\ last.tr.applied # <<>> /\ last.err = "setting user.email"
  /\ "user.name" \in DOMAIN gitLocal /\ gitLocal["user.name"] = last.tr.applied[1].git_user
  /\ "user.email" \in DOMAIN gitLocal /\ gitLocal["user.email"] = Old
  /\ "core.sshCommand" \in DOMAIN gitLocal /\ gitLocal["core.sshCommand"] = Old

----------------------------------------------------------------------------
(* C3: the tiers of ensure *)

\* an ensure on at least one stored profile, none of whose steps failed
EnsureRuns ==
  /\ last = NoInvocation
  /\ last'.argv.cmd = "ensure"
  /\ DOMAIN Stored(cfgFile) # {}
  /\ last'.tr.failed = {}

\* the git config cfg has a gitprofile.default that names a stored profile
NamesStored(cfg) ==
  /\ "gitprofile.default" \in DOMAIN cfg
  /\ cfg["gitprofile.default"] \in DOMAIN Stored(cfgFile)

\* ensure applied the profile stored under id, without prompting
AppliedStored(id) ==
  /\ last'.tr.applied = <<Stored(cfgFile)[id]>>
  /\ ~last'.tr.stdin

\* C3 as stated: with at least one profile stored, ensure applies the first
\* that matches of (1) the local gitprofile.default when it names a stored
\* profile, (2) the global gitprofile.default when it names a stored
\* profile, (3) the interactive choose; a default that names no stored
\* profile is no error, and resolution goes on with the next tier.
C3_AsStated ==
  [][EnsureRuns =>
       IF NamesStored(gitLocal) THEN AppliedStored(gitLocal["gitprofile.default"])
       ELSE IF NamesStored(gitGlobal) THEN AppliedStored(gitGlobal["gitprofile.default"])
       ELSE last'.tr.stdin /\ last'.tr.out = SortStrings(DOMAIN Stored(cfgFile))]_vars

----------------------------------------------------------------------------
(* C9: choose and ensure write the repository's git config only *)

\* C9: an invocation of choose or of ensure leaves the global git config as
\* it was, and every git config write or unset it issues targets the
\* repository's config.
C9_LocalOnly ==
  [][last = NoInvocation /\ last'.argv.cmd \in {"choose", "ensure"} =>
       /\ gitGlobal' = gitGlobal
       /\ \A i \in DOMAIN last'.tr.log : last'.tr.log[i].scope = "local"]_vars

\* ensure applied the profile the global default names: the repository has
\* the profile's identity, the global git config still has its own
C9_Witness ==
  /\ last.argv.cmd = "ensure" /\ last.err = "nil"
  /\ last.tr.applied # <<>> /\ ~last.tr.stdin
  /\ "gitprofile.default" \notin DOMAIN gitLocal
  /\ "gitprofile.default" \in DOMAIN gitGlobal
  /\ last.tr.applied[1].id = gitGlobal["gitprofile.default"]
  /\ gitLocal["user.name"] = last.tr.applied[1].git_user
  /\ gitGlobal["user.name"] = Old
  /\ gitGlobal["user.name"] # gitLocal["user.name"]

----------------------------------------------------------------------------
(* C5: what choose does with the line it reads *)

\* a choose on at least one stored profile, none of whose steps failed
ChooseRuns ==
  /\ last = NoInvocation
  /\ last'.argv.cmd = "choose"
  /\ DOMAIN Stored(cfgFile) # {}
  /\ last'.tr.failed = {}

\* the line is a decimal integer and nothing else
IsInteger(line) == line # <<>> /\ \A i \in DOMAIN line : line[i] \in Digits

IntegerOf(line) == ScanDigits(line, 0, 0).value

\* C5 as stated: with N >= 1 profiles stored, choose applies the k-th
\* profile in ascending lexicographic order of ids, at local scope, exactly
\* when the whitespace-trimmed input line is the integer k with 1 <= k <= N;
\* on any other input it fails with an error and writes nothing to any git
\* config.
C5_AsStated ==
  [][ChooseRuns =>
       LET line == TrimSpace(last'.typed)
           sorted == SortStrings(DOMAIN Stored(cfgFile))
       IN  IF IsInteger(line) /\ IntegerOf(line) \in 1..Len(sorted)
           THEN /\ last'.err = "nil"
                /\ last'.tr.applied = <<Stored(cfgFile)[sorted[IntegerOf(line)]]>>
                /\ \A i \in DOMAIN last'.tr.log : last'.tr.log[i].scope = "local"
           ELSE /\ last'.err # "nil" /\ last'.exit = 1
                /\ last'.tr.log = <<>>
                /\ gitLocal' = gitLocal /\ gitGlobal' = gitGlobal]_vars

----------------------------------------------------------------------------
(* C6: the exit code *)

Invoked == last # NoInvocation /\ "cmd" \in DOMAIN last.argv /\ last.build # 0

\* the invocation ran a handler that parses flags, and how the parse went
FlagsParsed(how) ==
  /\ last.argv.cmd \in {"add", "use", "set-default"} \cap Known(last.build)
  /\ last.argv.parse = how

\* the command succeeded: a known command, or help, that reported no error
\* and whose flags were not rejected
Succeeded ==
  /\ last.argv.cmd \in Known(last.build) \cup HelpWords
  /\ last.err = "nil"
  /\ ~FlagsParsed("bad")

\* C6 as stated: every invocation ends with exit code 0 when the command
\* succeeds and with exit code 1 in every other case, an unparsable flag
\* included.
C6_AsStated ==
  Invoked => last.exit = (IF Succeeded THEN 0 ELSE 1)

\* C6, amended: an invocation ends with exit code 2 when add, use or
\* set-default is given a flag its FlagSet rejects, with 0 when one of them
\* is given -h or -help, with 1 when the handler returns an error, when no
\* command is given and when the command is unknown, and with 0 otherwise.
C6_Exit ==
  Invoked =>
    last.exit = (IF FlagsParsed("bad") THEN 2
                 ELSE IF FlagsParsed("help") THEN 0
                 ELSE IF last.argv.cmd \notin Known(last.build) \cup HelpWords THEN 1
                 ELSE IF last.err # "nil" THEN 1
                 ELSE 0)

\* use was given a flag it does not define, and nothing was applied
C6_Witness ==
  /\ last.argv.cmd = "use" /\ last.argv.parse = "bad"
  /\ last.exit = 2 /\ last.tr.applied = <<>> /\ last.tr.log = <<>>

----------------------------------------------------------------------------
(* C7: which failing steps a command survives *)

Swallowed(cmd) ==
  {"unset core.sshCommand", "Close"}
    \cup (IF cmd \in {"choose", "ensure"} THEN {"stdin"} ELSE {})
    \cup (IF cmd = "ensure" THEN DefaultSteps ELSE {})
    \cup (IF cmd = "current" THEN CurrentSteps ELSE {})

----------------------------------------------------------------------------
(* C11: two adds at once *)

\* both adds have returned
BothDone == \A p \in DOMAIN procs : procs[p].pc = "done"

\* add p reported success
Reported(p) == procs[p].pc = "done" /\ procs[p].err = "nil"

\* this step is the rename of add p, and it succeeded
Renames(p) == procs[p].pc = "rename" /\ procs'[p].pc = "done" /\ procs'[p].err = "nil"

\* C11 as stated: when two adds with distinct new ids run at once, in every
\* interleaving of their steps (1) the finally stored config is the complete
\* config written by one of the two, (2) the last writer wins: when an add
\* reported success, the stored config is that of an add that reported
\* success and holds its profile, and (3) the rename of an add that reports
\* success takes effect: after it the config file is the complete config
\* that add wrote, not a mixture and not a truncated file.
C11_AsStated ==
  [][/\ BothDone' =>
          /\ cfgFile' \in {procs'[p].new : p \in DOMAIN procs}
          /\ (\E p \in DOMAIN procs : Reported(p)') =>
               \E p \in DOMAIN procs :
                 /\ Reported(p)'
                 /\ cfgFile' = procs'[p].new
                 /\ RaceId(p) \in DOMAIN Stored(cfgFile')
     /\ \A p \in DOMAIN procs : Renames(p) => cfgFile' = procs[p].new]_vars

====
